---------------------------- MODULE Spec2Model ----------------------------
(***************************************************************************)
(* Model of src/utils/utils-win.cpp (namespace utils::win):                *)
(*   - the lazily initialised, cached OS version (osver, osver_failure)    *)
(*     and the "at least version" predicates built on it;                  *)
(*   - fixQtHDPINonIntegerScaling and the monitor DPI discovery under it.   *)
(* Every exported function is one action that models the whole call.       *)
(* The answers of the platform (GetVersionEx, QLibrary::resolve,           *)
(* GetMonitorInfo, GetDpiForMonitor, CreateDC, GetDeviceCaps, ...) are      *)
(* inputs: GetVersionEx answers when it is called, the rest is the          *)
(* variable sys, fixed by Init.                                             *)
(***************************************************************************)
EXTENDS Integers, Sequences, FiniteSets, TLC

VARIABLES
    osver,              \* OSVERSIONINFOEX osver (line 14), the fields the code reads
    osver_failure,      \* bool osver_failure (line 15)
    getDpiForMonitor,   \* global function pointer (line 95): "null" or "resolved"
    setProcessDPIAware, \* global function pointer (line 96): "null" or "resolved"
    env,                \* the process environment: QT_SCALE_FACTOR, QT_AUTO_SCREEN_SCALE_FACTOR
    sys,                \* the platform: exports of the libraries, SetProcessDPIAware's
                        \* return value, the attached monitors and their answers
    queries,            \* the answers GetVersionEx has given so far, one per call of it
    openDCs,            \* device contexts created by CreateDC and not yet deleted
    call,               \* the last call: operation, arguments, result, API calls made
    threads,            \* per thread, how far its call of isAtLeastSystemVersion has got
    race                \* what has happened between threads so far

vars == <<osver, osver_failure, getDpiForMonitor, setProcessDPIAware, env, sys,
          queries, openDCs, call, threads, race>>

(***************************************************************************)
(* Bounds of the model and constants of the program.                       *)
(***************************************************************************)
\* Largest major / minor / service pack that GetVersionEx answers in the model,
\* and (with the wrap-around values below) that a caller requests.
MaxMajor == 6
MaxMinor == 3
MaxPatch == 1
\* Largest number of attached monitors.
MaxMonitors == 2
\* Number of threads that call the version functions.
MaxThreads == 2

\* unsigned / DWORD are 32 bits wide.
UnsignedBits == 32
\* OSVER_TO_NUM: ((major << 20) + (minor << 10) + (patch))
MajorShift == 20
MinorShift == 10
\* sizeof(OSVERSIONINFOEX): any non-zero value marks the cache initialised.
SizeofOSVERSIONINFOEX == 156
\* "if (dpi.first <= 96)" and "/ 96.0"
BaseDPI == 96
\* QString::number(double) formats with 'g' and precision 6.
NumberPrecision == 6

Pow2(n) == 2 ^ n

\* A 32-bit unsigned value as its two 16-bit halves, so that no intermediate
\* value leaves the range of the checker's integers.  The arguments of the
\* model are below 2^31.
HalfBits == UnsignedBits \div 2
Half == Pow2(HalfBits)
U32(x) == [hi |-> (x \div Half) % Half, lo |-> x % Half]

\* (unsigned)x << n, for 0 < n < 32: the bits shifted out at the top are lost.
Shl32(x, n) ==
    IF n >= HalfBits
    THEN [hi |-> (x % Pow2(UnsignedBits - n)) * Pow2(n - HalfBits), lo |-> 0]
    ELSE [hi |-> (x \div Pow2(HalfBits - n)) % Half,
          lo |-> (x % Pow2(HalfBits - n)) * Pow2(n)]

\* a + b modulo 2^32
Add32(a, b) ==
    [hi |-> (a.hi + b.hi + ((a.lo + b.lo) \div Half)) % Half,
     lo |-> (a.lo + b.lo) % Half]

\* a < b and a <= b on 32-bit unsigned values
Less32(a, b) == a.hi < b.hi \/ (a.hi = b.hi /\ a.lo < b.lo)
LessEq32(a, b) == a.hi < b.hi \/ (a.hi = b.hi /\ a.lo <= b.lo)

(***************************************************************************)
(* The OS version cache.                                                   *)
(***************************************************************************)
\* "OSVERSIONINFOEX osver; // static variable, all zero"
ZeroOsver ==
    [dwOSVersionInfoSize |-> 0, dwMajorVersion |-> 0,
     dwMinorVersion |-> 0, wServicePackMajor |-> 0]

\* What GetVersionEx can answer: failure, or success with a version from
\* Windows XP (major version 5) on.
FailedAnswer == [ok |-> FALSE, major |-> 0, minor |-> 0, sp |-> 0]
VersionAnswers ==
    {FailedAnswer} \cup
    [ok : {TRUE}, major : 5..MaxMajor, minor : 0..MaxMinor, sp : 0..MaxPatch]
\* The answers on both sides of each isWindows*OrHigher threshold.
GateAnswers ==
    {FailedAnswer} \cup
    {[ok |-> TRUE, major |-> 6, minor |-> n, sp |-> 0] : n \in {1, 2}}

\* GetVersionEx((LPOSVERSIONINFO)&osver): success fills the fields of the
\* struct passed in; failure leaves it as it was.
GetVersionEx(os, ans) ==
    IF ans.ok
    THEN [os EXCEPT !.dwMajorVersion = ans.major,
                    !.dwMinorVersion = ans.minor,
                    !.wServicePackMajor = ans.sp]
    ELSE os

\* A mutant of isInitializedSystemVersion: the cache never counts as
\* initialised.
isInitializedSystemVersionNever(os) == FALSE

isInitializedSystemVersion(os) == os.dwOSVersionInfoSize # 0

\* A mutant of initializeSystemVersion: the early return is missing, so
\* every call queries the OS again.
initializeSystemVersionRequery(v, ans) ==
    [osver |-> GetVersionEx(
                   [v.osver EXCEPT !.dwOSVersionInfoSize = SizeofOSVERSIONINFOEX], ans),
     osver_failure |-> IF ans.ok THEN v.osver_failure ELSE TRUE,
     queries |-> Append(v.queries, ans)]

\* initializeSystemVersion() on the cache v = [osver, osver_failure, queries],
\* where ans is what GetVersionEx answers should it be asked.
initializeSystemVersion(v, ans) ==
    IF isInitializedSystemVersion(v.osver)
    THEN v
    ELSE [osver |-> GetVersionEx(
                       [v.osver EXCEPT !.dwOSVersionInfoSize = SizeofOSVERSIONINFOEX], ans),
          osver_failure |-> IF ans.ok THEN v.osver_failure ELSE TRUE,
          queries |-> Append(v.queries, ans)]

\* A mutant of OSVER_TO_NUM: fields of 8 bits, (major << 16) + (minor << 8) + patch.
OSVER_TO_NUM_Bytes(major, minor, patch) ==
    Add32(Add32(Shl32(major, 16), Shl32(minor, 8)), U32(patch))

\* #define OSVER_TO_NUM(major, minor, patch), in 32-bit unsigned arithmetic.
OSVER_TO_NUM(major, minor, patch) ==
    Add32(Add32(Shl32(major, MajorShift), Shl32(minor, MinorShift)), U32(patch))

\* #define OSVER_SYS(ver)
OSVER_SYS(ver) ==
    OSVER_TO_NUM(ver.dwMajorVersion, ver.dwMinorVersion, ver.wServicePackMajor)

\* A mutant of AtLeastCompare: the boundary is exclusive ("<=" for "<").
AtLeastCompareExclusive(os, failure, major, minor, patch) ==
    IF failure THEN FALSE
    ELSE IF LessEq32(OSVER_SYS(os), OSVER_TO_NUM(major, minor, patch)) THEN FALSE
    ELSE TRUE

\* A mutant of AtLeastCompare: the failure flag is not consulted.
AtLeastCompareNoFailure(os, failure, major, minor, patch) ==
    IF Less32(OSVER_SYS(os), OSVER_TO_NUM(major, minor, patch)) THEN FALSE
    ELSE TRUE

\* The body of _isAtLeastSystemVersion after initializeSystemVersion().
AtLeastCompare(os, failure, major, minor, patch) ==
    IF failure THEN FALSE
    ELSE IF Less32(OSVER_SYS(os), OSVER_TO_NUM(major, minor, patch)) THEN FALSE
    ELSE TRUE

\* _isAtLeastSystemVersion(major, minor, patch): the cache after the call
\* and the value returned.
AtLeastReturn(w, major, minor, patch) ==
    [v |-> w, result |-> AtLeastCompare(w.osver, w.osver_failure, major, minor, patch)]
_isAtLeastSystemVersion(v, major, minor, patch, ans) ==
    AtLeastReturn(initializeSystemVersion(v, ans), major, minor, patch)


\* The stores of getSystemVersion, in the order the code makes them: the
\* "default to XP" triple under the failure flag, then the fields of osver.
StoreDefaultXP(out, failure) == IF failure THEN <<5, 1, 0>> ELSE out
StoreOsver(out, os) ==
    <<os.dwMajorVersion, os.dwMinorVersion, os.wServicePackMajor>>

\* getSystemVersion(&major, &minor, &patch): out0 is what the caller's
\* variables held; out is what they hold on return.
getSystemVersionStores(w, out0) ==
    [v |-> w, out |-> StoreOsver(StoreDefaultXP(out0, w.osver_failure), w.osver)]
getSystemVersion(v, ans, out0) ==
    getSystemVersionStores(initializeSystemVersion(v, ans), out0)

\* isAtLeastSystemVersion(major, minor, patch), the exported function.
isAtLeastSystemVersion(v, major, minor, patch, ans) ==
    _isAtLeastSystemVersion(v, major, minor, patch, ans)

\* isAtLeastSystemVersion<6, 0, 0>() and the other thresholds.
isWindowsVistaOrHigher(v, ans) == _isAtLeastSystemVersion(v, 6, 0, 0, ans)
\* A mutant of isWindows7OrHigher: Windows 7 taken for version 7.0.
isWindows7OrHigherAsSeven(v, ans) == _isAtLeastSystemVersion(v, 7, 0, 0, ans)

isWindows7OrHigher(v, ans) == _isAtLeastSystemVersion(v, 6, 1, 0, ans)
isWindows8OrHigher(v, ans) == _isAtLeastSystemVersion(v, 6, 2, 0, ans)
isWindows8Point1OrHigher(v, ans) == _isAtLeastSystemVersion(v, 6, 3, 0, ans)

(***************************************************************************)
(* Monitors and DPI discovery.                                             *)
(***************************************************************************)
\* typedef QPair<qreal, qreal> QDpi; QPair's default constructor gives (0, 0).
QDpi(x, y) == [first |-> x, second |-> y]
DefaultQDpi == QDpi(0, 0)

\* The device name of the virtual monitor that monitorData skips.
WinDisc == "WinDisc"

\* One attached monitor and what the platform answers about it:
\*   infoOk    GetMonitorInfo succeeds         szDevice  info.szDevice
\*   gdpmOk    GetDpiForMonitor SUCCEEDED      gdpm      the dpiX, dpiY it stores
\*   hdc       CreateDC gives a non-null HDC   caps      GetDeviceCaps LOGPIXELSX, LOGPIXELSY
Monitor(infoOk, szDevice, gdpmOk, gdpmX, hdc, capsX) ==
    [infoOk |-> infoOk, szDevice |-> szDevice,
     gdpmOk |-> gdpmOk, gdpm |-> QDpi(gdpmX, gdpmX),
     hdc |-> hdc, caps |-> QDpi(capsX, capsX)]

\* The monitors of the model.  Where an answer is never asked for on the
\* path a monitor takes, it is set to one that would yield a DPI if asked.
MonitorKinds ==
    { Monitor(FALSE, "DISPLAY1", TRUE, 144, TRUE, 120),   \* GetMonitorInfo fails
      Monitor(TRUE, WinDisc, TRUE, 144, TRUE, 120),       \* the virtual monitor
      Monitor(TRUE, "DISPLAY1", TRUE, 144, TRUE, 120),    \* per-monitor DPI 144
      Monitor(TRUE, "DISPLAY1", TRUE, 96, TRUE, 120),     \* per-monitor DPI 96
      Monitor(TRUE, "DISPLAY1", TRUE, 100, FALSE, 0),     \* per-monitor DPI 100
      Monitor(TRUE, "DISPLAY1", FALSE, 0, FALSE, 0),      \* both tiers fail
      Monitor(TRUE, "DISPLAY1", FALSE, 0, TRUE, 192),     \* device context: 192
      Monitor(TRUE, "DISPLAY1", TRUE, 0, TRUE, 120),      \* DPI 0, device context: 120
      Monitor(TRUE, "DISPLAY1", FALSE, 0, TRUE, 72),      \* device context: 72
      Monitor(TRUE, "DISPLAY1", FALSE, 0, TRUE, 0) }      \* device context: 0

RECURSIVE SeqsUpTo(_, _)
SeqsUpTo(S, n) ==
    IF n = 0 THEN {<<>>}
    ELSE LET shorter == SeqsUpTo(S, n - 1)
         IN  shorter \cup {Append(q, x) : q \in {r \in shorter : Len(r) = n - 1}, x \in S}

\* An API call made during an operation; mon is the monitor's place in the
\* enumeration, 0 for a call that is about no monitor.
Event(api, mon) == [api |-> api, mon |-> mon]

\* A mutant of monitorDPI: GetDpiForMonitor is taken to fail always.
monitorDPIUnavailable(m) == QDpi(0, 0)

\* monitorDPI(hMonitor)
monitorDPI(m) == IF m.gdpmOk THEN m.gdpm ELSE QDpi(0, 0)

\* deviceDPI(hdc)
deviceDPI(m) == m.caps

\* A mutant of IsVirtualMonitor: the device name is not compared.
IsVirtualMonitorNever(m) == FALSE

\* QString::fromLocal8Bit(info.szDevice) == QLatin1String("WinDisc")
IsVirtualMonitor(m) == m.szDevice = WinDisc

\* A mutant of monitorData: the device context is not deleted.
monitorDataLeaking(m, i, dpi_out) ==
    IF ~m.infoOk
    THEN [ret |-> FALSE, dpi |-> dpi_out, dcs |-> 0,
          events |-> <<Event("GetMonitorInfo", i)>>]
    ELSE IF IsVirtualMonitor(m)
    THEN [ret |-> FALSE, dpi |-> dpi_out, dcs |-> 0,
          events |-> <<Event("GetMonitorInfo", i)>>]
    ELSE IF monitorDPI(m).first # 0
    THEN [ret |-> TRUE, dpi |-> monitorDPI(m), dcs |-> 0,
          events |-> <<Event("GetMonitorInfo", i),
                       Event("GetDpiForMonitor", i)>>]
    ELSE IF m.hdc
    THEN [ret |-> TRUE, dpi |-> deviceDPI(m), dcs |-> 1,
          events |-> <<Event("GetMonitorInfo", i),
                       Event("GetDpiForMonitor", i),
                       Event("CreateDC", i),
                       Event("GetDeviceCaps", i)>>]
    ELSE [ret |-> FALSE, dpi |-> dpi_out, dcs |-> 0,
          events |-> <<Event("GetMonitorInfo", i),
                       Event("GetDpiForMonitor", i),
                       Event("CreateDC", i)>>]

\* monitorData(hMonitor, dpi_out) for the i-th monitor m: the value returned,
\* *dpi_out on return, the API calls made, and the device contexts left open.
monitorData(m, i, dpi_out) ==
    IF ~m.infoOk
    THEN [ret |-> FALSE, dpi |-> dpi_out, dcs |-> 0,
          events |-> <<Event("GetMonitorInfo", i)>>]
    ELSE IF IsVirtualMonitor(m)
    THEN [ret |-> FALSE, dpi |-> dpi_out, dcs |-> 0,
          events |-> <<Event("GetMonitorInfo", i)>>]
    ELSE LET dpi == monitorDPI(m)
         IN  IF dpi.first # 0
             THEN [ret |-> TRUE, dpi |-> dpi, dcs |-> 0,
                   events |-> <<Event("GetMonitorInfo", i),
                                Event("GetDpiForMonitor", i)>>]
             ELSE IF m.hdc
             THEN [ret |-> TRUE, dpi |-> deviceDPI(m), dcs |-> 1 - 1,
                   events |-> <<Event("GetMonitorInfo", i),
                                Event("GetDpiForMonitor", i),
                                Event("CreateDC", i),
                                Event("GetDeviceCaps", i),
                                Event("DeleteDC", i)>>]
             ELSE [ret |-> FALSE, dpi |-> dpi_out, dcs |-> 0,
                   events |-> <<Event("GetMonitorInfo", i),
                                Event("GetDpiForMonitor", i),
                                Event("CreateDC", i)>>]

\* monitorEnumCallback(hMonitor, hdc, rect, p): false once monitorData has
\* written a DPI, true otherwise.
CallbackReturn(found) == [found EXCEPT !.ret = ~found.ret]
monitorEnumCallback(m, i, data) == CallbackReturn(monitorData(m, i, data))

\* EnumDisplayMonitors(0, 0, (MONITORENUMPROC)monitorEnumCallback, p) from the
\* i-th monitor on.  The callback returns a C++ bool (one byte) and is called
\* through a pointer to a function returning BOOL (an int): the call is
\* undefined, and what the enumerator reads as the BOOL is the byte the
\* callback set plus three bytes it did not.  A returned true reads as
\* non-zero; a returned false reads as zero or not.  wide is the set of
\* monitors at which those three bytes are not all zero.
RECURSIVE EnumDisplayMonitors(_, _, _, _)
RECURSIVE EnumVisited(_, _, _, _, _)
EnumDisplayMonitors(mons, i, acc, wide) ==
    IF i > Len(mons)
    THEN acc
    ELSE EnumVisited(mons, i, acc, wide, monitorEnumCallback(mons[i], i, acc.dpi))

\* The enumeration once the callback has returned r for the i-th monitor.
EnumVisited(mons, i, acc, wide, r) ==
    IF r.ret \/ i \in wide
    THEN EnumDisplayMonitors(mons, i + 1,
             [dpi |-> r.dpi, dcs |-> acc.dcs + r.dcs,
              events |-> acc.events \o r.events], wide)
    ELSE [dpi |-> r.dpi, dcs |-> acc.dcs + r.dcs, events |-> acc.events \o r.events]

\* readDPI(dpi): "return dpi->first != 0" on what the enumeration e left.
readDPIReturn(e) ==
    [ret |-> e.dpi.first # 0, dpi |-> e.dpi, dcs |-> e.dcs, events |-> e.events]
readDPI(mons, dpi, wide) ==
    readDPIReturn(
        EnumDisplayMonitors(mons, 1,
            [dpi |-> dpi, dcs |-> 0, events |-> <<Event("EnumDisplayMonitors", 0)>>],
            wide))

(***************************************************************************)
(* QString::number(double): 'g' format, precision 6, C locale.             *)
(***************************************************************************)
Pow10(n) == 10 ^ n
DigitChar(d) == <<"0", "1", "2", "3", "4", "5", "6", "7", "8", "9">>[d + 1]

\* The decimal digits of a natural number.
RECURSIVE NatToString(_)
NatToString(n) ==
    IF n < 10 THEN DigitChar(n) ELSE NatToString(n \div 10) \o DigitChar(n % 10)

\* The number of decimal digits of a natural number.
RECURSIVE DigitCount(_)
DigitCount(n) == IF n < 10 THEN 1 ELSE 1 + DigitCount(n \div 10)

\* num / den rounded to the nearest integer, a tie to the even one.
RoundHalfEven(num, den) ==
    LET q == num \div den
        r == num % den
    IN  IF 2 * r > den \/ (2 * r = den /\ q % 2 = 1) THEN q + 1 ELSE q

\* The digits of f in a field of the given width, trailing zeros dropped:
\* 'g' prints no trailing zeros.
RECURSIVE FractionDigits(_, _)
FractionDigits(f, width) ==
    IF width = 0 \/ f = 0 THEN ""
    ELSE IF f % 10 = 0 THEN FractionDigits(f \div 10, width - 1)
    ELSE FractionDigits(f \div 10, width - 1) \o DigitChar(f % 10)

RECURSIVE Zeros(_)
Zeros(n) == IF n = 0 THEN "" ELSE "0" \o Zeros(n - 1)

\* A mutant of QStringNumber: the division is made on integers, as it would
\* be without the cast to double.
QStringNumberOfQuotient(num, den) == NatToString(num \div den)

\* QString::number(num / den) for 1 <= num / den < 10^6, where 'g' prints in
\* fixed notation: six significant digits, '.' as separator, no trailing
\* zeros, no '.' when no digit follows it.
QStringNumber(num, den) ==
    LET intDigits == DigitCount(num \div den)
        decimals == NumberPrecision - intDigits
        scaled == RoundHalfEven(num * Pow10(decimals), den)
        whole == scaled \div Pow10(decimals)
        frac == scaled % Pow10(decimals)
        fracDigits == FractionDigits(frac, decimals)
        leading == Zeros(decimals - DigitCount(frac))
    IN  IF frac = 0 THEN NatToString(whole)
        ELSE NatToString(whole) \o "." \o leading \o fracDigits

(***************************************************************************)
(* fixQtHDPINonIntegerScaling.                                             *)
(***************************************************************************)
QT_SCALE_FACTOR == "QT_SCALE_FACTOR"
QT_AUTO_SCREEN_SCALE_FACTOR == "QT_AUTO_SCREEN_SCALE_FACTOR"
EnvNames == {QT_SCALE_FACTOR, QT_AUTO_SCREEN_SCALE_FACTOR}

\* qgetenv(name): the value, empty when the variable is not set.
qgetenv(e, name) == e[name]

\* g_setenv(name, value, 1)
g_setenv(e, name, value) == [e EXCEPT ![name] = value]

\* QLibrary::resolve(symbol): the function, or nullptr.
resolve(exported) == IF exported THEN "resolved" ELSE "null"

\* The GetVersionEx call that an operation made, if it made one.
VersionEvents(v, w) ==
    IF Len(w.queries) > Len(v.queries) THEN <<Event("GetVersionEx", 0)>> ELSE <<>>

\* What a call of fixQtHDPINonIntegerScaling leaves behind.
FixReturn(result, w, e, gdfm, spda, events, dcs, dpi) ==
    [result |-> result, v |-> w, env |-> e,
     getDpiForMonitor |-> gdfm, setProcessDPIAware |-> spda,
     events |-> events, dcs |-> dcs, dpi |-> dpi]

\* A mutant of AtMostBaseDPI: "<" for "<=".
BelowBaseDPI(dpi) == dpi.first < BaseDPI

\* "dpi.first <= 96"
AtMostBaseDPI(dpi) == dpi.first <= BaseDPI

\* Lines 206-220: the threshold check and the publication, once readDPI has
\* returned read.
FixPublish(read, w, e, events) ==
    IF ~read.ret
    THEN FixReturn(FALSE, w, e, "resolved", "resolved",
                   events \o read.events, read.dcs, read.dpi)
    ELSE IF AtMostBaseDPI(read.dpi)
    THEN FixReturn(FALSE, w, e, "resolved", "resolved",
                   events \o read.events, read.dcs, read.dpi)
    ELSE FixReturn(TRUE, w,
                   g_setenv(e, QT_SCALE_FACTOR, QStringNumber(read.dpi.first, BaseDPI)),
                   "resolved", "resolved",
                   (events \o read.events) \o <<Event("g_setenv QT_SCALE_FACTOR", 0)>>,
                   read.dcs, read.dpi)

\* A mutant of AutoScreenScaleFactorSet: the variable is not looked at.
AutoScreenScaleFactorIgnored(e) == FALSE

\* A mutant of ScaleFactorSet: the variable is not looked at.
ScaleFactorIgnored(e) == FALSE

\* !qgetenv("QT_SCALE_FACTOR").isEmpty()
ScaleFactorSet(e) == qgetenv(e, QT_SCALE_FACTOR) # ""

\* !qgetenv("QT_AUTO_SCREEN_SCALE_FACTOR").isEmpty()
AutoScreenScaleFactorSet(e) == qgetenv(e, QT_AUTO_SCREEN_SCALE_FACTOR) # ""

\* A mutant of IsNullptr: the pointer is not checked.
IsNullptrUnchecked(f) == FALSE

\* "== nullptr" on a resolved function pointer
IsNullptr(f) == f = "null"

\* A mutant of FixAware: a failed SetProcessDPIAware() ends the call.
FixAwareRequired(aware, read, w, e, events) ==
    IF ~aware
    THEN FixReturn(FALSE, w, e, "resolved", "resolved", events, 0, DefaultQDpi)
    ELSE FixPublish(read, w, e, events)

\* Lines 197-220: "if (!setProcessDPIAware()) { }" on the value aware that
\* SetProcessDPIAware() returned (the block is empty), then what follows, on
\* what readDPI gave.
FixAware(aware, read, w, e, events) ==
    IF ~aware
    THEN FixPublish(read, w, e, events)
    ELSE FixPublish(read, w, e, events)

\* Lines 171-204: the gates after the version gate, the DPI-awareness call
\* and DPI discovery.
FixGates(w, e, g, p, wide, events) ==
    IF ScaleFactorSet(e)
    THEN FixReturn(TRUE, w, e, g.getDpiForMonitor, g.setProcessDPIAware,
                   events, 0, DefaultQDpi)
    ELSE IF AutoScreenScaleFactorSet(e)
    THEN FixReturn(TRUE, w, e, g.getDpiForMonitor, g.setProcessDPIAware,
                   events, 0, DefaultQDpi)
    ELSE IF IsNullptr(resolve(p.shcore))
    THEN FixReturn(FALSE, w, e, resolve(p.shcore), g.setProcessDPIAware,
                   events \o <<Event("resolve GetDpiForMonitor", 0)>>, 0, DefaultQDpi)
    ELSE IF IsNullptr(resolve(p.user32))
    THEN FixReturn(FALSE, w, e, resolve(p.shcore), resolve(p.user32),
                   events \o <<Event("resolve GetDpiForMonitor", 0),
                               Event("resolve SetProcessDPIAware", 0)>>,
                   0, DefaultQDpi)
    ELSE FixAware(p.dpiAware, readDPI(p.monitors, DefaultQDpi, wide), w, e,
                  events \o <<Event("resolve GetDpiForMonitor", 0),
                              Event("resolve SetProcessDPIAware", 0),
                              Event("SetProcessDPIAware", 0)>>)

\* A mutant of VersionGateFails: the version is not looked at.
VersionGateNeverFails(gate) == FALSE

\* "!isWindows8OrHigher()"
VersionGateFails(gate) == ~gate.result

\* Lines 167-170: the version gate, on what isWindows8OrHigher() gave.
FixVersionGate(v, gate, e, g, p, wide) ==
    IF VersionGateFails(gate)
    THEN FixReturn(FALSE, gate.v, e, g.getDpiForMonitor, g.setProcessDPIAware,
                   VersionEvents(v, gate.v), 0, DefaultQDpi)
    ELSE FixGates(gate.v, e, g, p, wide, VersionEvents(v, gate.v))

\* fixQtHDPINonIntegerScaling() from the cache v, the environment e, the
\* globals g = [getDpiForMonitor, setProcessDPIAware] and the platform p,
\* with ans what GetVersionEx answers if asked and wide as in
\* EnumDisplayMonitors.
fixQtHDPINonIntegerScaling(v, e, g, p, ans, wide) ==
    FixVersionGate(v, isWindows8OrHigher(v, ans), e, g, p, wide)

(***************************************************************************)
(* The state machine.                                                      *)
(***************************************************************************)
\* The versions a caller asks about: the small ones, and in each field the
\* values at which OSVER_TO_NUM carries into the next field or wraps.
RequestMajors == (0..MaxMajor) \cup {Pow2(MinorShift), Pow2(UnsignedBits - MajorShift)}
RequestMinors == (0..MaxMinor) \cup {Pow2(MinorShift), Pow2(UnsignedBits - MinorShift)}
RequestPatches == (0..MaxPatch) \cup {Pow2(MinorShift)}
Requests == RequestMajors \X RequestMinors \X RequestPatches
GateRequests == {<<0, 0, 0>>, <<6, 2, 0>>, <<7, 0, 0>>}

\* The platforms fixQtHDPINonIntegerScaling can run on, with at most n
\* monitors attached.
Platforms(n) ==
    [shcore : BOOLEAN,        \* SHCore exports GetDpiForMonitor
     user32 : BOOLEAN,        \* user32 exports SetProcessDPIAware
     dpiAware : BOOLEAN,      \* what SetProcessDPIAware() returns
     monitors : SeqsUpTo(MonitorKinds, n)]

\* The environment at process start: each variable unset or set by the user.
Environments ==
    {[n \in EnvNames |-> IF n = QT_SCALE_FACTOR THEN a ELSE b] :
        a \in {"", "2"}, b \in {"", "1"}}

Cache == [osver |-> osver, osver_failure |-> osver_failure, queries |-> queries]
Globals == [getDpiForMonitor |-> getDpiForMonitor,
            setProcessDPIAware |-> setProcessDPIAware]

SetCache(w) ==
    /\ osver' = w.osver
    /\ osver_failure' = w.osver_failure
    /\ queries' = w.queries

\* The record of a call.  req: the version asked about; out: the triple
\* getSystemVersion stored; result: the boolean returned; envBefore: the
\* environment on entry; events: the API calls made, in order; dpi: the QDpi
\* that DPI discovery left.
Call(op, req, out, result, events, dpi) ==
    [op |-> op, req |-> req, out |-> out, result |-> result,
     envBefore |-> env, events |-> events, dpi |-> dpi]

NoCall == [op |-> "none", req |-> <<>>, out |-> <<>>, result |-> FALSE,
           envBefore |-> [n \in EnvNames |-> ""], events |-> <<>>,
           dpi |-> DefaultQDpi]

\* The threads of the process that call the version functions.
Threads == 1..MaxThreads

\* A thread outside any call.  pc: the statement it is at; req: the version
\* it asks about; ans: what GetVersionEx is answering it; sawInitialized:
\* what isInitializedSystemVersion() gave it; failure: the osver_failure it
\* read; fields: the version fields it read; result: the value returned.
IdleThread ==
    [pc |-> "idle", req |-> <<>>, ans |-> FailedAnswer, sawInitialized |-> FALSE,
     failure |-> FALSE, fields |-> <<>>, result |-> FALSE]

\* Nothing has happened between threads yet.  overlapped: a call began while
\* another thread was inside a call; populated: the number of GetVersionEx
\* calls that have returned; unpopulated: a thread that found the cache
\* initialised has read the version fields when no GetVersionEx call had
\* returned yet.
NoRace == [overlapped |-> FALSE, populated |-> 0, unpopulated |-> FALSE]

\* The state at process start on the platform p with the environment e.
Start(p, e) ==
    /\ osver = ZeroOsver
    /\ osver_failure = FALSE
    /\ getDpiForMonitor = "null"
    /\ setProcessDPIAware = "null"
    /\ env = e
    /\ sys = p
    /\ queries = <<>>
    /\ openDCs = 0
    /\ call = NoCall
    /\ threads = [t \in Threads |-> IdleThread]
    /\ race = NoRace

\* Any platform with at most one monitor.
Init == \E p \in Platforms(1), e \in Environments : Start(p, e)

\* Any platform with up to MaxMonitors monitors.
InitScaling == \E p \in Platforms(MaxMonitors), e \in Environments : Start(p, e)

\* One platform, for the specification of the version cache alone.
InitVersion ==
    Start([shcore |-> TRUE, user32 |-> TRUE, dpiAware |-> TRUE,
           monitors |-> <<Monitor(TRUE, "DISPLAY1", TRUE, 144, TRUE, 120)>>],
          [n \in EnvNames |-> ""])

\* A call of a predicate: r is what the operator of the predicate gives.
PredicateCall(op, req, r) ==
    /\ SetCache(r.v)
    /\ call' = Call(op, req, <<>>, r.result, VersionEvents(Cache, r.v), DefaultQDpi)
    /\ UNCHANGED <<getDpiForMonitor, setProcessDPIAware, env, sys, openDCs, threads, race>>

GetSystemVersion(ans) ==
    \E r \in {getSystemVersion(Cache, ans, <<0, 0, 0>>)} :
        /\ SetCache(r.v)
        /\ call' = Call("getSystemVersion", <<>>, r.out, FALSE,
                        VersionEvents(Cache, r.v), DefaultQDpi)
        /\ UNCHANGED <<getDpiForMonitor, setProcessDPIAware, env, sys, openDCs, threads, race>>

IsAtLeastSystemVersion(req, ans) ==
    PredicateCall("isAtLeastSystemVersion", req,
                  isAtLeastSystemVersion(Cache, req[1], req[2], req[3], ans))

IsWindowsVistaOrHigher(ans) ==
    PredicateCall("isWindowsVistaOrHigher", <<6, 0, 0>>, isWindowsVistaOrHigher(Cache, ans))

IsWindows7OrHigher(ans) ==
    PredicateCall("isWindows7OrHigher", <<6, 1, 0>>, isWindows7OrHigher(Cache, ans))

IsWindows8OrHigher(ans) ==
    PredicateCall("isWindows8OrHigher", <<6, 2, 0>>, isWindows8OrHigher(Cache, ans))

IsWindows8Point1OrHigher(ans) ==
    PredicateCall("isWindows8Point1OrHigher", <<6, 3, 0>>,
                  isWindows8Point1OrHigher(Cache, ans))

FixQtHDPINonIntegerScaling(ans, wide) ==
    \E r \in {fixQtHDPINonIntegerScaling(Cache, env, Globals, sys, ans, wide)} :
        /\ SetCache(r.v)
        /\ env' = r.env
        /\ getDpiForMonitor' = r.getDpiForMonitor
        /\ setProcessDPIAware' = r.setProcessDPIAware
        /\ openDCs' = openDCs + r.dcs
        /\ call' = Call("fixQtHDPINonIntegerScaling", <<>>, <<>>, r.result,
                        r.events, r.dpi)
        /\ UNCHANGED <<sys, threads, race>>

\* What GetVersionEx may answer during a call: it is asked only while the
\* cache is not initialised.
Answers(S) == IF isInitializedSystemVersion(osver) THEN {FailedAnswer} ELSE S

\* Every exported function, called in any order.
Next ==
    \/ \E ans \in Answers(GateAnswers) : GetSystemVersion(ans)
    \/ \E ans \in Answers(GateAnswers), req \in GateRequests :
           IsAtLeastSystemVersion(req, ans)
    \/ \E ans \in Answers(GateAnswers) : IsWindowsVistaOrHigher(ans)
    \/ \E ans \in Answers(GateAnswers) : IsWindows7OrHigher(ans)
    \/ \E ans \in Answers(GateAnswers) : IsWindows8OrHigher(ans)
    \/ \E ans \in Answers(GateAnswers) : IsWindows8Point1OrHigher(ans)
    \/ \E ans \in Answers(GateAnswers), wide \in SUBSET (1..Len(sys.monitors)) :
           FixQtHDPINonIntegerScaling(ans, wide)

Spec == Init /\ [][Next]_vars

\* The version cache alone, over all the answers and requests of the model.
NextVersion ==
    \/ \E ans \in Answers(VersionAnswers) : GetSystemVersion(ans)
    \/ \E ans \in Answers(VersionAnswers), req \in Requests :
           IsAtLeastSystemVersion(req, ans)
    \/ \E ans \in Answers(VersionAnswers) : IsWindowsVistaOrHigher(ans)
    \/ \E ans \in Answers(VersionAnswers) : IsWindows7OrHigher(ans)
    \/ \E ans \in Answers(VersionAnswers) : IsWindows8OrHigher(ans)
    \/ \E ans \in Answers(VersionAnswers) : IsWindows8Point1OrHigher(ans)

SpecVersion == InitVersion /\ [][NextVersion]_vars

\* The comparison of _isAtLeastSystemVersion alone, on the field values at
\* both ends and in the middle of the 10 bits OSVER_TO_NUM gives a field:
\* the version answered and the version requested are any triples of them.
PackedFields == {0, 1, Pow2(MinorShift - 1), Pow2(MinorShift) - 1}
PackedAnswers == [ok : {TRUE}, major : PackedFields, minor : PackedFields, sp : PackedFields]
PackedRequests == PackedFields \X PackedFields \X PackedFields
NextPacked ==
    \E ans \in Answers(PackedAnswers), req \in PackedRequests :
        IsAtLeastSystemVersion(req, ans)

SpecPacked == InitVersion /\ [][NextPacked]_vars

\* fixQtHDPINonIntegerScaling and the predicate that gates it, over all the
\* platforms of the model.
NextScaling ==
    \/ \E ans \in Answers(GateAnswers) : IsWindows8OrHigher(ans)
    \/ \E ans \in Answers(GateAnswers), wide \in SUBSET (1..Len(sys.monitors)) :
           FixQtHDPINonIntegerScaling(ans, wide)

SpecScaling == InitScaling /\ [][NextScaling]_vars

(***************************************************************************)
(* The version cache under threads.  osver and osver_failure are plain     *)
(* statics with no lock: each thread runs _isAtLeastSystemVersion one      *)
(* memory access at a time, interleaved with the others.                   *)
(***************************************************************************)
\* The thread t becomes th, and race becomes rc.
ThreadStep(t, th, rc) ==
    /\ threads' = [threads EXCEPT ![t] = th]
    /\ race' = rc
    /\ UNCHANGED <<getDpiForMonitor, setProcessDPIAware, env, sys, openDCs, call>>

\* The thread t calls isAtLeastSystemVersion(req[1], req[2], req[3]).
ThreadEnter(t, req) ==
    /\ threads[t].pc = "idle"
    /\ ThreadStep(t, [IdleThread EXCEPT !.pc = "isInitializedSystemVersion", !.req = req],
                  [race EXCEPT !.overlapped =
                       @ \/ \E u \in Threads \ {t} : threads[u].pc # "idle"])
    /\ UNCHANGED <<osver, osver_failure, queries>>

\* Line 19: "if (isInitializedSystemVersion()) return;"
ThreadIsInitialized(t) ==
    /\ threads[t].pc = "isInitializedSystemVersion"
    /\ ThreadStep(t,
           IF isInitializedSystemVersion(osver)
           THEN [threads[t] EXCEPT !.pc = "osver_failure", !.sawInitialized = TRUE]
           ELSE [threads[t] EXCEPT !.pc = "dwOSVersionInfoSize"],
           race)
    /\ UNCHANGED <<osver, osver_failure, queries>>

\* Line 21: "osver.dwOSVersionInfoSize = sizeof(OSVERSIONINFOEX);"
ThreadStoreSize(t) ==
    /\ threads[t].pc = "dwOSVersionInfoSize"
    /\ osver' = [osver EXCEPT !.dwOSVersionInfoSize = SizeofOSVERSIONINFOEX]
    /\ ThreadStep(t, [threads[t] EXCEPT !.pc = "GetVersionEx"], race)
    /\ UNCHANGED <<osver_failure, queries>>

\* Line 25: GetVersionEx is called, and will answer ans.
ThreadGetVersionEx(t, ans) ==
    /\ threads[t].pc = "GetVersionEx"
    /\ queries' = Append(queries, ans)
    /\ ThreadStep(t, [threads[t] EXCEPT !.pc = "in GetVersionEx", !.ans = ans], race)
    /\ UNCHANGED <<osver, osver_failure>>

\* Line 25: GetVersionEx returns, having filled the struct if it succeeded.
ThreadGetVersionExReturns(t) ==
    /\ threads[t].pc = "in GetVersionEx"
    /\ osver' = GetVersionEx(osver, threads[t].ans)
    /\ ThreadStep(t,
           [threads[t] EXCEPT !.pc = IF threads[t].ans.ok THEN "osver_failure"
                                     ELSE "osver_failure = true"],
           [race EXCEPT !.populated = @ + 1])
    /\ UNCHANGED <<osver_failure, queries>>

\* Line 26: "osver_failure = true;"
ThreadStoreFailure(t) ==
    /\ threads[t].pc = "osver_failure = true"
    /\ osver_failure' = TRUE
    /\ ThreadStep(t, [threads[t] EXCEPT !.pc = "osver_failure"], race)
    /\ UNCHANGED <<osver, queries>>

\* Lines 33-34: "if (osver_failure) return false;"
ThreadTestFailure(t) ==
    /\ threads[t].pc = "osver_failure"
    /\ ThreadStep(t,
           IF osver_failure
           THEN [threads[t] EXCEPT !.pc = "idle", !.failure = TRUE, !.result = FALSE]
           ELSE [threads[t] EXCEPT !.pc = "OSVER_SYS"],
           race)
    /\ UNCHANGED <<osver, osver_failure, queries>>

\* What a read of the three version fields can give: each field as it is in
\* osver or, while GetVersionEx is filling the struct for another thread (a
\* data race), as that call is about to leave it.
RacyFields ==
    LET filling == {u \in Threads : threads[u].pc = "in GetVersionEx" /\ threads[u].ans.ok}
    IN  ({osver.dwMajorVersion} \cup {threads[u].ans.major : u \in filling})
            \X ({osver.dwMinorVersion} \cup {threads[u].ans.minor : u \in filling})
            \X ({osver.wServicePackMajor} \cup {threads[u].ans.sp : u \in filling})

\* Lines 36-43: the fields of osver are read, as f, and compared.
ThreadCompare(t) ==
    /\ threads[t].pc = "OSVER_SYS"
    /\ \E f \in RacyFields :
           ThreadStep(t,
               [threads[t] EXCEPT
                   !.pc = "idle",
                   !.fields = f,
                   !.result = AtLeastCompare(
                       [osver EXCEPT !.dwMajorVersion = f[1], !.dwMinorVersion = f[2],
                                     !.wServicePackMajor = f[3]],
                       threads[t].failure,
                       threads[t].req[1], threads[t].req[2], threads[t].req[3])],
               [race EXCEPT !.unpopulated =
                    @ \/ (threads[t].sawInitialized /\ race.populated = 0)])
    /\ UNCHANGED <<osver, osver_failure, queries>>

\* Threads calling isAtLeastSystemVersion with no synchronisation.
NextThreads ==
    \/ \E t \in Threads, req \in GateRequests : ThreadEnter(t, req)
    \/ \E t \in Threads : ThreadIsInitialized(t)
    \/ \E t \in Threads : ThreadStoreSize(t)
    \/ \E t \in Threads, ans \in GateAnswers : ThreadGetVersionEx(t, ans)
    \/ \E t \in Threads : ThreadGetVersionExReturns(t)
    \/ \E t \in Threads : ThreadStoreFailure(t)
    \/ \E t \in Threads : ThreadTestFailure(t)
    \/ \E t \in Threads : ThreadCompare(t)

SpecThreads == InitVersion /\ [][NextThreads]_vars

(***************************************************************************)
(* Properties of the version cache.                                        *)
(***************************************************************************)
\* The (major, minor, servicePack) triple the cache holds.
CachedTriple == <<osver.dwMajorVersion, osver.dwMinorVersion, osver.wServicePackMajor>>

\* a >= b in the lexicographic order of triples.
TripleAtLeast(a, b) ==
    \/ a[1] > b[1]
    \/ a[1] = b[1] /\ a[2] > b[2]
    \/ a[1] = b[1] /\ a[2] = b[2] /\ a[3] >= b[3]

\* GetVersionEx has been asked and has failed / has succeeded.
QueryFailed == \E i \in 1..Len(queries) : ~queries[i].ok
QuerySucceeded == \E i \in 1..Len(queries) : queries[i].ok

\* Every field of the triple is below 2^10, the width OSVER_TO_NUM gives a field.
FieldsFit(t) == \A i \in 1..3 : t[i] < Pow2(MinorShift)

\* C1 as stated: after a successful query, isAtLeastSystemVersion(major, minor,
\* patch) is true exactly when the requested triple is below or equal to the
\* cached triple, for every requested triple of unsigned values.
C1_AnyUnsignedTriple ==
    (call.op = "isAtLeastSystemVersion" /\ QuerySucceeded)
        => (call.result <=> TripleAtLeast(CachedTriple, call.req))

\* C1 amended: the same, for the triples whose fields are all below 2^10:
\* true below the cached triple, true at it, false strictly above it.
C1_FittingTriples ==
    (/\ call.op = "isAtLeastSystemVersion"
     /\ QuerySucceeded
     /\ FieldsFit(CachedTriple)
     /\ FieldsFit(call.req))
        => (call.result <=> TripleAtLeast(CachedTriple, call.req))

\* C1's case: a request for exactly the cached version, answered true.
C1_Witness ==
    /\ call.op = "isAtLeastSystemVersion"
    /\ QuerySucceeded
    /\ call.req = CachedTriple
    /\ call.result

\* C2: once the OS version query has failed, isAtLeastSystemVersion returns
\* false for every requested triple, (0, 0, 0) included, on the call that made
\* the query and on every later call.
C2_FailureMeansNever ==
    (call.op = "isAtLeastSystemVersion" /\ QueryFailed) => ~call.result

\* C2's case: a later call, for (0, 0, 0), after a failed query.
C2_Witness ==
    /\ call.op = "isAtLeastSystemVersion"
    /\ QueryFailed
    /\ call.req = <<0, 0, 0>>
    /\ call.events = <<>>
    /\ ~call.result

\* C3: GetVersionEx is called at most once; once the cache is marked
\* initialised, no call of any exported function changes the cached fields or
\* the failure flag, or queries again.
C3_QueriedOnce ==
    /\ [](Len(queries) <= 1)
    /\ [][isInitializedSystemVersion(osver)
            => /\ osver' = osver
               /\ osver_failure' = osver_failure
               /\ queries' = queries]_vars

\* C3's case: after a failed query, a later call of fixQtHDPINonIntegerScaling
\* that made no query.
C3_Witness ==
    /\ call.op = "fixQtHDPINonIntegerScaling"
    /\ osver_failure
    /\ Len(queries) = 1
    /\ call.events = <<>>

\* C4: getSystemVersion reports (5, 1, 0) when the query failed and the
\* queried triple when it succeeded.
C4_FallbackReported ==
    call.op = "getSystemVersion"
        => call.out = IF QueryFailed
                      THEN <<5, 1, 0>>
                      ELSE <<queries[1].major, queries[1].minor, queries[1].sp>>

(***************************************************************************)
(* Properties of fixQtHDPINonIntegerScaling.                               *)
(***************************************************************************)
IsFixCall == call.op = "fixQtHDPINonIntegerScaling"

\* The last call made the API call api / made it about the i-th monitor.
Called(api) == \E k \in 1..Len(call.events) : call.events[k].api = api
CalledOn(api, i) ==
    \E k \in 1..Len(call.events) : call.events[k] = Event(api, i)

\* The last call made an API call about some monitor.
TouchedMonitors == \E k \in 1..Len(call.events) : call.events[k].mon > 0

\* The cached version, queried with success, is at least Windows 8 (6, 2, 0).
AtLeastWindows8 == QuerySucceeded /\ TripleAtLeast(CachedTriple, <<6, 2, 0>>)

\* One of the two variables held a value when the last call began.
OverrideOnEntry ==
    \/ call.envBefore[QT_SCALE_FACTOR] # ""
    \/ call.envBefore[QT_AUTO_SCREEN_SCALE_FACTOR] # ""

\* A capability of the two is not exported on this platform.
CapabilityMissing == ~sys.shcore \/ ~sys.user32

\* C5 as stated: with QT_SCALE_FACTOR or QT_AUTO_SCREEN_SCALE_FACTOR non-empty
\* on entry, fixQtHDPINonIntegerScaling returns true and leaves both variables
\* as they were.
C5_OverrideHandled ==
    (IsFixCall /\ OverrideOnEntry) => (call.result /\ env = call.envBefore)

\* C5 amended: with either variable non-empty on entry, both variables are
\* left as they were, and the call returns true when the OS is at least
\* Windows 8 (the version gate comes first, and returns false below it).
C5_OverrideHandledOnWindows8 ==
    (IsFixCall /\ OverrideOnEntry)
        => /\ env = call.envBefore
           /\ call.result <=> AtLeastWindows8

\* C5's case: only QT_AUTO_SCREEN_SCALE_FACTOR is set, on Windows 8, where
\* the monitors would give a DPI to publish.
C5_Witness ==
    /\ IsFixCall
    /\ call.envBefore[QT_SCALE_FACTOR] = ""
    /\ call.envBefore[QT_AUTO_SCREEN_SCALE_FACTOR] # ""
    /\ ~CapabilityMissing
    /\ Len(sys.monitors) > 0
    /\ sys.monitors[1] = Monitor(TRUE, "DISPLAY1", TRUE, 144, TRUE, 120)
    /\ call.result

\* What C6 says of a call that stops at the capability gate.
NotApplicableUntouched ==
    /\ ~call.result
    /\ ~Called("SetProcessDPIAware")
    /\ ~Called("EnumDisplayMonitors")
    /\ ~TouchedMonitors
    /\ env = call.envBefore

\* C6 as stated: if GetDpiForMonitor or SetProcessDPIAware cannot be resolved,
\* the call returns false, without the DPI-awareness call, without enumerating
\* monitors and without changing the environment.
C6_MissingCapability == (IsFixCall /\ CapabilityMissing) => NotApplicableUntouched

\* C6 amended: the same, for the calls that reach the capability gate: the OS
\* is at least Windows 8 and both variables are empty on entry.
C6_MissingCapabilityAtGate ==
    (IsFixCall /\ CapabilityMissing /\ AtLeastWindows8 /\ ~OverrideOnEntry)
        => NotApplicableUntouched

\* C6's case: GetDpiForMonitor resolves, SetProcessDPIAware does not.
C6_Witness ==
    /\ IsFixCall
    /\ sys.shcore /\ ~sys.user32
    /\ AtLeastWindows8
    /\ ~OverrideOnEntry
    /\ Called("resolve SetProcessDPIAware")
    /\ Len(sys.monitors) > 0

\* The value a decimal string denotes, as [num, den] with den a power of ten;
\* den = 0 for a string that is no such number (a character other than a
\* digit or '.', a second '.', nothing before or after the '.').
DigitOf(c) == IF \E d \in 0..9 : DigitChar(d) = c
              THEN CHOOSE d \in 0..9 : DigitChar(d) = c
              ELSE -1
RECURSIVE ParseDigits(_, _, _, _)
ParseDigits(str, k, num, den) ==
    IF k > Len(str) THEN [num |-> num, den |-> den]
    ELSE IF SubSeq(str, k, k) = "."
    THEN IF den # 0 \/ k = 1 \/ k = Len(str)
         THEN [num |-> 0, den |-> 0]
         ELSE ParseDigits(str, k + 1, num, 1)
    ELSE IF DigitOf(SubSeq(str, k, k)) < 0
    THEN [num |-> 0, den |-> 0]
    ELSE ParseDigits(str, k + 1, 10 * num + DigitOf(SubSeq(str, k, k)),
                     IF den = 0 THEN 0 ELSE 10 * den)
ParseDecimalFrom(parsed) == [parsed EXCEPT !.den = IF @ = 0 THEN 1 ELSE @]
ParseDecimal(str) ==
    IF str = "" THEN [num |-> 0, den |-> 0]
    ELSE ParseDecimalFrom(ParseDigits(str, 1, 0, 0))

\* str denotes dpiX / 96 to six significant digits: it is a decimal number
\* with '.' as separator, within half a unit of the sixth digit of dpiX / 96.
DenotesFactor(str, dpiX) ==
    \E d \in {ParseDecimal(str)}, ulps \in {Pow10(NumberPrecision - DigitCount(dpiX \div BaseDPI))} :
        /\ d.den > 0
        /\ ulps % d.den = 0
        /\ \E diff \in {d.num * BaseDPI - dpiX * d.den} :
              /\ diff <= BaseDPI /\ -diff <= BaseDPI
              /\ 2 * diff * (ulps \div d.den) <= BaseDPI
              /\ -2 * diff * (ulps \div d.den) <= BaseDPI

\* The values the claim and the spec name.
NamedFactor(dpiX) ==
    CASE dpiX = 144 -> "1.5"
      [] dpiX = 192 -> "2"
      [] dpiX = 120 -> "1.25"
      [] OTHER -> env[QT_SCALE_FACTOR]

\* C7: when the gates pass and DPI discovery resolves a horizontal DPI above
\* 96, the call returns true and QT_SCALE_FACTOR holds dpiX / 96 as a decimal
\* number with '.' as separator: "1.5" for 144, "2" for 192, "1.25" for 120.
C7_FactorPublished ==
    (IsFixCall /\ Called("EnumDisplayMonitors") /\ call.dpi.first > BaseDPI)
        => /\ call.result
           /\ DenotesFactor(env[QT_SCALE_FACTOR], call.dpi.first)
           /\ env[QT_SCALE_FACTOR] = NamedFactor(call.dpi.first)
           /\ env[QT_AUTO_SCREEN_SCALE_FACTOR] = call.envBefore[QT_AUTO_SCREEN_SCALE_FACTOR]

\* C7's case: a DPI of 120, read from a device context, published as "1.25".
C7_Witness ==
    /\ IsFixCall
    /\ call.dpi.first = 120
    /\ call.envBefore[QT_SCALE_FACTOR] = ""
    /\ env[QT_SCALE_FACTOR] = "1.25"
    /\ call.result

\* C8: when DPI discovery leaves a horizontal DPI of 96, or any value not
\* above 96, the call returns false and the environment is as it was.
C8_BaselineNoAction ==
    (IsFixCall /\ Called("EnumDisplayMonitors") /\ call.dpi.first <= BaseDPI)
        => (~call.result /\ env = call.envBefore)

\* C8's case: a monitor of exactly 96 DPI.
C8_Witness ==
    /\ IsFixCall
    /\ Called("EnumDisplayMonitors")
    /\ call.dpi.first = BaseDPI

\* The i-th monitor is the virtual monitor "WinDisc".
IsWinDisc(i) == sys.monitors[i].szDevice = WinDisc

\* C9: for a monitor named "WinDisc" neither GetDpiForMonitor nor the device
\* context fallback is tried, so it never supplies the DPI; when it is the
\* only monitor enumerated, discovery reports no DPI and the call returns
\* false with the environment as it was.
C9_VirtualMonitorExcluded ==
    IsFixCall
        => /\ \A i \in 1..Len(sys.monitors) :
                  IsWinDisc(i)
                      => /\ ~CalledOn("GetDpiForMonitor", i)
                         /\ ~CalledOn("CreateDC", i)
                         /\ ~CalledOn("GetDeviceCaps", i)
           /\ (/\ Called("EnumDisplayMonitors")
               /\ Len(sys.monitors) = 1
               /\ IsWinDisc(1))
                  => /\ call.dpi = DefaultQDpi
                     /\ ~call.result
                     /\ env = call.envBefore

\* C9's case: the virtual monitor is enumerated, and is the only monitor.
C9_Witness ==
    /\ IsFixCall
    /\ Len(sys.monitors) = 1
    /\ IsWinDisc(1)
    /\ CalledOn("GetMonitorInfo", 1)

\* C10: when isWindows8OrHigher() is false, the cached version being below
\* (6, 2, 0) or the query having failed, the call returns false and has
\* resolved no capability, made no DPI-awareness call, enumerated no monitor
\* and changed nothing in the environment.
C10_VersionGate ==
    (IsFixCall /\ ~AtLeastWindows8)
        => /\ ~call.result
           /\ ~Called("resolve GetDpiForMonitor")
           /\ ~Called("resolve SetProcessDPIAware")
           /\ ~Called("SetProcessDPIAware")
           /\ ~Called("EnumDisplayMonitors")
           /\ ~TouchedMonitors
           /\ env = call.envBefore

\* C10's case: the query failed, on a platform where every later gate would
\* pass and a monitor would give a DPI to publish.
C10_Witness ==
    /\ IsFixCall
    /\ QueryFailed
    /\ ~OverrideOnEntry
    /\ ~CapabilityMissing
    /\ Len(sys.monitors) > 0
    /\ sys.monitors[1] = Monitor(TRUE, "DISPLAY1", TRUE, 144, TRUE, 120)

\* The last call wrote the variable name: it called g_setenv on it, or left
\* it with another value than it had on entry.
Written(name) == Called("g_setenv " \o name) \/ env[name] # call.envBefore[name]

\* C11: a call of fixQtHDPINonIntegerScaling writes QT_SCALE_FACTOR only if
\* the OS is at least Windows 8 (6, 2, 0), both variables were empty on entry,
\* both capabilities resolved and the horizontal DPI found is above 96; it
\* never writes QT_AUTO_SCREEN_SCALE_FACTOR.
C11_WriteOnlyWhenApplicable ==
    IsFixCall
        => /\ Written(QT_SCALE_FACTOR)
                  => /\ AtLeastWindows8
                     /\ ~OverrideOnEntry
                     /\ ~CapabilityMissing
                     /\ getDpiForMonitor = "resolved"
                     /\ setProcessDPIAware = "resolved"
                     /\ call.dpi.first > BaseDPI
           /\ ~Written(QT_AUTO_SCREEN_SCALE_FACTOR)

\* C11's case: a call that wrote QT_SCALE_FACTOR.
C11_Witness ==
    /\ IsFixCall
    /\ Called("g_setenv " \o QT_SCALE_FACTOR)
    /\ env[QT_SCALE_FACTOR] # ""
    /\ call.envBefore[QT_SCALE_FACTOR] = ""

(***************************************************************************)
(* Properties of DPI discovery.                                            *)
(***************************************************************************)
\* The monitor m can give a positive horizontal DPI: it is not the virtual
\* monitor, its information can be read, and GetDpiForMonitor or, failing
\* that, a device context on it gives a positive value.
PositiveByMonitor(m) == m.gdpmOk /\ m.gdpm.first > 0
PositiveByDevice(m) == m.hdc /\ m.caps.first > 0
CanYield(m) ==
    /\ m.infoOk
    /\ m.szDevice # WinDisc
    /\ PositiveByMonitor(m) \/ PositiveByDevice(m)

\* The DPI such a monitor gives.
YieldOf(m) == IF PositiveByMonitor(m) THEN m.gdpm ELSE m.caps

\* The monitors of the platform that can give a positive DPI, and the first.
Yielding == {i \in 1..Len(sys.monitors) : CanYield(sys.monitors[i])}
FirstYielding == CHOOSE i \in Yielding : \A j \in Yielding : i <= j

\* C12: a monitor that gives no positive DPI (its information or its device
\* context cannot be had, or the value is not positive) does not stop the
\* enumeration: when some enumerated monitor other than the virtual one can
\* give a positive horizontal DPI, DPI discovery ends with the DPI of the
\* first such monitor, whatever monitors come before it.
C12_FirstUsableMonitorWins ==
    (IsFixCall /\ Called("EnumDisplayMonitors") /\ Yielding # {})
        => call.dpi = YieldOf(sys.monitors[FirstYielding])

\* The number of times the last call made the API call api on the monitor i.
TimesCalledOn(api, i) ==
    Cardinality({k \in 1..Len(call.events) : call.events[k] = Event(api, i)})

\* monitorData reported a DPI for the i-th monitor during the last call: it
\* returned after GetDpiForMonitor without opening a device context, or it
\* read a device context.
Reported(i) ==
    \/ CalledOn("GetDpiForMonitor", i) /\ ~CalledOn("CreateDC", i)
    \/ CalledOn("GetDeviceCaps", i)

\* The DPI monitorData reported for the i-th monitor.
ReportedDPI(i) ==
    IF CalledOn("GetDeviceCaps", i)
    THEN deviceDPI(sys.monitors[i])
    ELSE monitorDPI(sys.monitors[i])

\* C13: once monitorData has reported a DPI for a monitor, no later monitor
\* is visited or queried and the DPI is not overwritten; when monitorData
\* reports nothing for every monitor, every monitor is visited exactly once.
C13_SingleMatch ==
    (IsFixCall /\ Called("EnumDisplayMonitors"))
        => /\ \A i \in 1..Len(sys.monitors) :
                  Reported(i)
                      => /\ \A k \in 1..Len(call.events) : call.events[k].mon <= i
                         /\ call.dpi = ReportedDPI(i)
           /\ (\A i \in 1..Len(sys.monitors) : ~Reported(i))
                  => \A i \in 1..Len(sys.monitors) : TimesCalledOn("GetMonitorInfo", i) = 1

\* The position of the API call api on the monitor i in the last call.
EventIndex(api, i) == CHOOSE k \in 1..Len(call.events) : call.events[k] = Event(api, i)

\* No monitor after the i-th was touched during the last call.
LastVisited(i) == \A k \in 1..Len(call.events) : call.events[k].mon <= i

\* The i-th monitor was visited, is not the virtual monitor, and its
\* information could be read.
Resolvable(i) ==
    /\ CalledOn("GetMonitorInfo", i)
    /\ sys.monitors[i].infoOk
    /\ sys.monitors[i].szDevice # WinDisc

\* C14: for a monitor other than the virtual one whose information can be
\* read, GetDpiForMonitor is asked first and a positive answer is the DPI of
\* the monitor, with no device context opened; a device context is tried only
\* when GetDpiForMonitor fails or answers nothing positive; when both fail the
\* monitor gives no DPI.
C14_TieredResolution ==
    (IsFixCall /\ Called("EnumDisplayMonitors"))
        => \A i \in 1..Len(sys.monitors) :
               Resolvable(i)
                   => /\ TimesCalledOn("GetDpiForMonitor", i) = 1
                      /\ PositiveByMonitor(sys.monitors[i])
                             => /\ ~CalledOn("CreateDC", i)
                                /\ Reported(i)
                                /\ LastVisited(i) => call.dpi = sys.monitors[i].gdpm
                      /\ CalledOn("CreateDC", i) <=> ~PositiveByMonitor(sys.monitors[i])
                      /\ CalledOn("CreateDC", i)
                             => EventIndex("GetDpiForMonitor", i) < EventIndex("CreateDC", i)
                      /\ (~PositiveByMonitor(sys.monitors[i]) /\ ~sys.monitors[i].hdc)
                             => /\ ~Reported(i)
                                /\ i < Len(sys.monitors) => CalledOn("GetMonitorInfo", i + 1)
                                /\ (\A j \in 1..Len(sys.monitors) : ~Reported(j))
                                       => call.dpi = DefaultQDpi /\ ~call.result

\* C14's case: GetDpiForMonitor failed for a monitor and its device context
\* gave the DPI of the call.
C14_Witness ==
    /\ IsFixCall
    /\ \E i \in 1..Len(sys.monitors) :
           /\ Resolvable(i)
           /\ ~sys.monitors[i].gdpmOk
           /\ EventIndex("GetDpiForMonitor", i) < EventIndex("CreateDC", i)
           /\ CalledOn("GetDeviceCaps", i)
           /\ call.dpi = sys.monitors[i].caps
           /\ call.dpi.first > 0

\* C15: no device context is open between calls, and every device context
\* the last call created was deleted exactly once, after it was read; a
\* CreateDC that failed is followed by no DeleteDC.
C15_DeviceContextsScoped ==
    /\ openDCs = 0
    /\ \A i \in 1..Len(sys.monitors) :
           /\ TimesCalledOn("CreateDC", i) <= 1
           /\ TimesCalledOn("DeleteDC", i) =
                  (IF CalledOn("CreateDC", i) /\ sys.monitors[i].hdc THEN 1 ELSE 0)
           /\ CalledOn("DeleteDC", i)
                  => /\ EventIndex("CreateDC", i) < EventIndex("GetDeviceCaps", i)
                     /\ EventIndex("GetDeviceCaps", i) < EventIndex("DeleteDC", i)

\* C15's case: a call in which CreateDC failed on the first monitor and
\* gave a device context on the second, which was read and deleted.
C15_Witness ==
    /\ IsFixCall
    /\ Len(sys.monitors) >= 2
    /\ CalledOn("CreateDC", 1) /\ ~sys.monitors[1].hdc
    /\ CalledOn("CreateDC", 2) /\ sys.monitors[2].hdc
    /\ ~CalledOn("DeleteDC", 1) /\ CalledOn("DeleteDC", 2)
    /\ openDCs = 0

(***************************************************************************)
(* The return value of SetProcessDPIAware.                                 *)
(***************************************************************************)
\* The platform p, with SetProcessDPIAware() returning the other value.
OtherAwareness(p) == [p EXCEPT !.dpiAware = ~@]

\* C16: what SetProcessDPIAware() returns has no influence on a call of
\* fixQtHDPINonIntegerScaling: from every reachable state of a platform where
\* it returns true, the call makes the same API calls in the same order on
\* the same monitors, returns the same value and leaves the same environment,
\* version cache and resolved capabilities as on the platform that differs
\* only in that it returns false.
C16_AwarenessResultIgnored ==
    sys.dpiAware
        => \A ans \in Answers(GateAnswers), wide \in SUBSET (1..Len(sys.monitors)) :
               fixQtHDPINonIntegerScaling(Cache, env, Globals, sys, ans, wide)
                   = fixQtHDPINonIntegerScaling(Cache, env, Globals,
                                                OtherAwareness(sys), ans, wide)

\* C16's case: SetProcessDPIAware() was called and returned false, and the
\* call went on to publish a factor.
C16_Witness ==
    /\ IsFixCall
    /\ Called("SetProcessDPIAware")
    /\ ~sys.dpiAware
    /\ Called("g_setenv " \o QT_SCALE_FACTOR)
    /\ call.result

(***************************************************************************)
(* The version cache under threads.                                        *)
(***************************************************************************)
\* The thread t has returned from a call.
Returned(t) == threads[t].pc = "idle" /\ threads[t].req # <<>>

\* The triple GetVersionEx answered with.
AnswerTriple(ans) == <<ans.major, ans.minor, ans.sp>>

\* C17: as long as no call has begun while another thread was inside a call,
\* GetVersionEx has been asked at most once, no thread has read the version
\* fields of a cache marked initialised before a query had filled them, every
\* comparison made has read the fields as the one query left them, and every
\* call has returned what the comparison against that answer gives.
C17_SequentialCallsSafe ==
    ~race.overlapped
        => /\ Len(queries) <= 1
           /\ ~race.unpopulated
           /\ \A t \in Threads :
                  Returned(t)
                      => /\ Len(queries) = 1
                         /\ race.populated = 1
                         /\ threads[t].fields # <<>>
                                => threads[t].fields = AnswerTriple(queries[1])
                         /\ threads[t].result =
                                AtLeastCompare(GetVersionEx(osver, queries[1]),
                                               ~queries[1].ok, threads[t].req[1],
                                               threads[t].req[2], threads[t].req[3])

\* C17's case, first interleaving: two threads made their first call at the
\* same time and GetVersionEx was asked twice.
C17_QueriedTwice == race.overlapped /\ Len(queries) = 2

\* C17's case, second interleaving: a thread found the cache marked
\* initialised, read the version fields before the query of the other thread
\* had filled them, and returned false for Windows 8 (6, 2, 0) on a system
\* that the query, since returned, says is Windows 8.
C17_Witness ==
    /\ race.overlapped
    /\ race.unpopulated
    /\ queries = <<[ok |-> TRUE, major |-> 6, minor |-> 2, sp |-> 0]>>
    /\ race.populated = 1
    /\ \E t \in Threads :
           /\ Returned(t)
           /\ threads[t].sawInitialized
           /\ threads[t].req = <<6, 2, 0>>
           /\ threads[t].fields = <<0, 0, 0>>
           /\ ~threads[t].result

(***************************************************************************)
(* The packed comparison.                                                  *)
(***************************************************************************)
\* C18: when every field of the cached and of the requested triple is below
\* 2^10, "packed cached >= packed requested" on the 32-bit numbers
\* (major << 20) + (minor << 10) + patch is the same as "cached >= requested"
\* in the lexicographic order of (major, minor, patch), and it is what the
\* call returns.
C18_PackedIsLexicographic ==
    (/\ call.op = "isAtLeastSystemVersion"
     /\ QuerySucceeded
     /\ FieldsFit(CachedTriple)
     /\ FieldsFit(call.req))
        => /\ LessEq32(OSVER_TO_NUM(call.req[1], call.req[2], call.req[3]),
                       OSVER_SYS(osver))
                  <=> TripleAtLeast(CachedTriple, call.req)
           /\ call.result
                  <=> LessEq32(OSVER_TO_NUM(call.req[1], call.req[2], call.req[3]),
                               OSVER_SYS(osver))

\* C18's case: the cached triple is above the requested one by its minor
\* version alone, and below it in the patch by the whole width of a field.
C18_Witness ==
    /\ call.op = "isAtLeastSystemVersion"
    /\ QuerySucceeded
    /\ CachedTriple = <<1, 1, 0>>
    /\ call.req = <<1, 0, Pow2(MinorShift) - 1>>
    /\ call.result

(***************************************************************************)
(* Two calls of fixQtHDPINonIntegerScaling in succession.                  *)
(***************************************************************************)
\* The API call api is in the log events.
Logged(events, api) == \E k \in 1..Len(events) : events[k].api = api

\* C19: on an unchanged platform, a call of fixQtHDPINonIntegerScaling that
\* directly follows another leaves the environment as the first call left it;
\* when the first call published QT_SCALE_FACTOR, the second stops at the
\* gate on that variable: it returns true, enumerates no monitor and does not
\* write the variable again.
C19_Idempotent ==
    [][(IsFixCall /\ call'.op = "fixQtHDPINonIntegerScaling")
           => /\ env' = env
              /\ Called("g_setenv " \o QT_SCALE_FACTOR)
                     => /\ call'.result
                        /\ ~Logged(call'.events, "EnumDisplayMonitors")
                        /\ ~Logged(call'.events, "g_setenv " \o QT_SCALE_FACTOR)]_vars

(***************************************************************************)
(* The four isWindows*OrHigher predicates together.                        *)
(***************************************************************************)
PredicateOps ==
    {"isWindowsVistaOrHigher", "isWindows7OrHigher", "isWindows8OrHigher",
     "isWindows8Point1OrHigher"}

\* The four predicates called one after the other from the cache v, where
\* GetVersionEx answers ans if the first of them asks: what each returns.
PredicateResults(v, ans) ==
    LET p81 == isWindows8Point1OrHigher(v, ans)
        p8 == isWindows8OrHigher(p81.v, ans)
        p7 == isWindows7OrHigher(p8.v, ans)
        pv == isWindowsVistaOrHigher(p7.v, ans)
    IN  <<p81.result, p8.result, p7.result, pv.result>>

\* C20: in every reachable state, whatever GetVersionEx answers or has
\* answered (any version, or failure), isWindows8Point1OrHigher implies
\* isWindows8OrHigher, which implies isWindows7OrHigher, which implies
\* isWindowsVistaOrHigher; and a predicate called again directly after itself
\* returns the value it returned before.
C20_MonotoneAndStable ==
    /\ [](\A ans \in Answers(VersionAnswers) :
              \E r \in {PredicateResults(Cache, ans)} :
                  /\ r[1] => r[2]
                  /\ r[2] => r[3]
                  /\ r[3] => r[4])
    /\ [][(call.op \in PredicateOps /\ call'.op = call.op)
              => call'.result = call.result]_vars

\* C20's case: on a cached Windows 8 (6, 2), a repeated call (it asked
\* GetVersionEx nothing) of isWindows8OrHigher returns true, where
\* isWindows8Point1OrHigher is false and the two predicates below are true.
C20_Witness ==
    /\ call.op = "isWindows8OrHigher"
    /\ call.events = <<>>
    /\ call.result
    /\ PredicateResults(Cache, FailedAnswer) = <<FALSE, TRUE, TRUE, TRUE>>

=============================================================================
